---- MODULE Spec2Model ----
(***************************************************************************)
(* Model of the console address book ht1_console_helper_bot.py: the field  *)
(* validators, Record, AddressBook, the upcoming-birthday computation, the *)
(* JSON and pickle persistence functions, the decorated command handlers   *)
(* and the main loop.                                                      *)
(*                                                                         *)
(* A Python str is a sequence of one-character strings.  A date is a       *)
(* record [year, month, day].  A raised exception is the exc field of the  *)
(* record an operator returns ("none" when the call returns normally).     *)
(***************************************************************************)
EXTENDS Integers, Sequences, FiniteSets, TLC

VARIABLES
  book,     \* the AddressBook of the session
  file,     \* the content of PHONEBOOK_FILE
  pc,       \* "lib" while the functions are called directly; the position of main otherwise
  padYear,  \* whether the platform's strftime pads %Y to four digits
  prev,     \* history: the book before the last call
  last,     \* history: the last call, its arguments and its outcome
  saved     \* history: the book the last save was called with

vars == <<book, file, pc, padYear, prev, last, saved>>

----------------------------------------------------------------------------
(* Bounds of the model *)

\* the longest phone list a record holds; the contacts are bounded by the
\* names the inputs offer
MaxPhones == 2

----------------------------------------------------------------------------
(* Characters and str methods *)

LowerLetters ==
  <<"a","b","c","d","e","f","g","h","i","j","k","l","m",
    "n","o","p","q","r","s","t","u","v","w","x","y","z">>

UpperLetters ==
  <<"A","B","C","D","E","F","G","H","I","J","K","L","M",
    "N","O","P","Q","R","S","T","U","V","W","X","Y","Z">>

Digits == <<"0","1","2","3","4","5","6","7","8","9">>

IsLower(c) == \E i \in 1..26 : LowerLetters[i] = c
IsUpper(c) == \E i \in 1..26 : UpperLetters[i] = c
IsDigit(c) == \E i \in 1..10 : Digits[i] = c
IsSpace(c) == c = " "

CharUpper(c) ==
  IF IsLower(c) THEN UpperLetters[CHOOSE i \in 1..26 : LowerLetters[i] = c] ELSE c

CharLower(c) ==
  IF IsUpper(c) THEN LowerLetters[CHOOSE i \in 1..26 : UpperLetters[i] = c] ELSE c

\* str.isalpha(): non-empty and every character a letter
IsAlpha(s) == Len(s) > 0 /\ \A i \in 1..Len(s) : IsLower(s[i]) \/ IsUpper(s[i])

\* str.capitalize(): first character upper-cased, the rest lower-cased
Capitalize(s) == [i \in 1..Len(s) |-> IF i = 1 THEN CharUpper(s[i]) ELSE CharLower(s[i])]

\* str.lower()
Lower(s) == [i \in 1..Len(s) |-> CharLower(s[i])]

DigitVal(c) == (CHOOSE i \in 1..10 : Digits[i] = c) - 1

\* str.split(): the maximal runs of non-whitespace characters, in order
RECURSIVE SplitFrom(_, _, _)
SplitFrom(s, i, cur) ==
  IF i > Len(s) THEN (IF cur = <<>> THEN <<>> ELSE <<cur>>)
  ELSE IF IsSpace(s[i])
       THEN (IF cur = <<>> THEN <<>> ELSE <<cur>>) \o SplitFrom(s, i + 1, <<>>)
       ELSE SplitFrom(s, i + 1, Append(cur, s[i]))

Split(s) == SplitFrom(s, 1, <<>>)

----------------------------------------------------------------------------
(* datetime.date *)

IsLeap(y) == (y % 4 = 0) /\ ((y % 100 # 0) \/ (y % 400 = 0))

DaysInMonth(y, m) ==
  IF m = 2 THEN (IF IsLeap(y) THEN 29 ELSE 28)
  ELSE IF m \in {4, 6, 9, 11} THEN 30 ELSE 31

RECURSIVE DaysBeforeMonth(_, _)
DaysBeforeMonth(y, m) ==
  IF m = 1 THEN 0 ELSE DaysBeforeMonth(y, m - 1) + DaysInMonth(y, m - 1)

DaysBeforeYear(y) ==
  (y - 1) * 365 + ((y - 1) \div 4) - ((y - 1) \div 100) + ((y - 1) \div 400)

MkDate(y, m, d) == [year |-> y, month |-> m, day |-> d]

\* date.toordinal(): 0001-01-01 is day 1
ToOrdinal(dt) == DaysBeforeYear(dt.year) + DaysBeforeMonth(dt.year, dt.month) + dt.day

\* date.weekday(): Monday is 0, Sunday is 6
Weekday(dt) == (ToOrdinal(dt) + 6) % 7

\* date.__lt__: compares (year, month, day)
DateLT(a, b) ==
  \/ a.year < b.year
  \/ a.year = b.year /\ a.month < b.month
  \/ a.year = b.year /\ a.month = b.month /\ a.day < b.day

\* the constructor's range check: years 1 (MINYEAR) to 9999 (MAXYEAR)
ValidDate(y, m, d) ==
  /\ y >= 1 /\ y <= 9999
  /\ m >= 1 /\ m <= 12
  /\ d >= 1 /\ d <= DaysInMonth(y, m)

\* date.replace(year=y): ValueError when the day does not exist in year y
DateReplaceYear(dt, y) ==
  IF ValidDate(y, dt.month, dt.day)
  THEN [exc |-> "none", value |-> MkDate(y, dt.month, dt.day)]
  ELSE [exc |-> "ValueError", value |-> dt]

NextDay(dt) ==
  IF dt.day < DaysInMonth(dt.year, dt.month) THEN MkDate(dt.year, dt.month, dt.day + 1)
  ELSE IF dt.month < 12 THEN MkDate(dt.year, dt.month + 1, 1)
  ELSE MkDate(dt.year + 1, 1, 1)

\* date + timedelta(days=n), n >= 0: OverflowError past year 9999
RECURSIVE DateAddDays(_, _)
DateAddDays(dt, n) ==
  IF n = 0 THEN [exc |-> "none", value |-> dt]
  ELSE IF NextDay(dt).year > 9999 THEN [exc |-> "OverflowError", value |-> dt]
  ELSE DateAddDays(NextDay(dt), n - 1)

TwoDigits(n) == <<Digits[(n \div 10) + 1], Digits[(n % 10) + 1]>>

RECURSIVE Decimal(_)
Decimal(n) == IF n < 10 THEN <<Digits[n + 1]>> ELSE Append(Decimal(n \div 10), Digits[(n % 10) + 1])

FourDigits(n) == TwoDigits(n \div 100) \o TwoDigits(n % 100)

\* strftime("%d.%m.%Y"): %d and %m are zero-padded; whether %Y is padded to
\* four digits for a year below 1000 depends on the C library (pad)
Strftime(dt, pad) ==
  TwoDigits(dt.day) \o <<".">> \o TwoDigits(dt.month) \o <<".">>
    \o (IF pad \/ dt.year >= 1000 THEN FourDigits(dt.year) ELSE Decimal(dt.year))

----------------------------------------------------------------------------
(* Field validators *)

\* Name.validate: raises unless non-empty and alphabetic; returns the
\* capitalized form
NameValidate(value) ==
  IF value = <<>> \/ ~IsAlpha(value)
  THEN [exc |-> "ValueError", value |-> value]
  ELSE [exc |-> "none", value |-> Capitalize(value)]

\* Name.__init__: validate(value), then Field.__init__(value) stores the
\* argument; the value validate returns is not used
NameInit(value) ==
  IF NameValidate(value).exc # "none"
  THEN [exc |-> "ValueError", value |-> value]
  ELSE [exc |-> "none", value |-> value]

\* re.fullmatch(r"\d{10}", value)
PhoneMatch(value) == Len(value) = 10 /\ \A i \in 1..10 : IsDigit(value[i])

\* Phone.__init__
PhoneInit(value) ==
  IF PhoneMatch(value)
  THEN [exc |-> "none", value |-> value]
  ELSE [exc |-> "ValueError", value |-> value]

\* re.fullmatch(r"^(0[1-9]|[12]\d|3[01])\.(0[1-9]|1[0-2])\.\d{4}$", value)
BirthdayMatch(v) ==
  /\ Len(v) = 10
  /\ \/ v[1] = "0" /\ IsDigit(v[2]) /\ v[2] # "0"
     \/ v[1] \in {"1", "2"} /\ IsDigit(v[2])
     \/ v[1] = "3" /\ v[2] \in {"0", "1"}
  /\ v[3] = "."
  /\ \/ v[4] = "0" /\ IsDigit(v[5]) /\ v[5] # "0"
     \/ v[4] = "1" /\ v[5] \in {"0", "1", "2"}
  /\ v[6] = "."
  /\ \A i \in 7..10 : IsDigit(v[i])

\* datetime.strptime(value, "%d.%m.%Y") on a string the pattern accepted
Strptime(v) ==
  LET d == DigitVal(v[1]) * 10 + DigitVal(v[2])
      m == DigitVal(v[4]) * 10 + DigitVal(v[5])
      y == DigitVal(v[7]) * 1000 + DigitVal(v[8]) * 100 + DigitVal(v[9]) * 10 + DigitVal(v[10])
  IN IF ValidDate(y, m, d)
     THEN [exc |-> "none", value |-> MkDate(y, m, d)]
     ELSE [exc |-> "ValueError", value |-> MkDate(1, 1, 1)]

\* Birthday.__init__
BirthdayInit(value) ==
  IF BirthdayMatch(value) THEN Strptime(value)
  ELSE [exc |-> "ValueError", value |-> MkDate(1, 1, 1)]

----------------------------------------------------------------------------
(* Record *)

\* birthday = None
NoBirthday == [year |-> 0, month |-> 0, day |-> 0]

\* Record.__init__
RecordInit(name) ==
  [exc |-> NameInit(name).exc,
   rec |-> [name |-> NameInit(name).value, phones |-> <<>>, birthday |-> NoBirthday]]

\* as add_phone, but the phone is appended without being validated
RecordAddPhoneUnchecked(rec, phone) ==
  [exc |-> "none", rec |-> [rec EXCEPT !.phones = Append(@, phone)]]

\* Record.add_phone: Phone(phone) is built before the append
RecordAddPhone(rec, phone) ==
  IF PhoneInit(phone).exc # "none"
  THEN [exc |-> PhoneInit(phone).exc, rec |-> rec]
  ELSE [exc |-> "none", rec |-> [rec EXCEPT !.phones = Append(@, PhoneInit(phone).value)]]

\* index of the first phone whose value equals phone, 0 when there is none
FirstPhone(rec, phone) ==
  IF \E i \in 1..Len(rec.phones) : rec.phones[i] = phone
  THEN CHOOSE i \in 1..Len(rec.phones) :
         /\ rec.phones[i] = phone
         /\ \A j \in 1..(i - 1) : rec.phones[j] # phone
  ELSE 0

\* Record.delete_phone
RecordDeletePhone(rec, phone) ==
  LET i == FirstPhone(rec, phone)
  IN IF i = 0 THEN [ret |-> FALSE, rec |-> rec]
     ELSE [ret |-> TRUE,
           rec |-> [rec EXCEPT !.phones =
                      SubSeq(@, 1, i - 1) \o SubSeq(@, i + 1, Len(@))]]

\* as edit_phone, but the loop keeps going and the last occurrence is replaced
RecordEditPhoneLast(rec, old_phone, new_phone) ==
  LET found == {i \in 1..Len(rec.phones) : rec.phones[i] = old_phone}
      i == CHOOSE k \in found : \A j \in found : j <= k
  IN IF found = {} THEN [exc |-> "none", ret |-> FALSE, rec |-> rec]
     ELSE IF PhoneInit(new_phone).exc # "none"
          THEN [exc |-> PhoneInit(new_phone).exc, ret |-> FALSE, rec |-> rec]
          ELSE [exc |-> "none", ret |-> TRUE,
                rec |-> [rec EXCEPT !.phones[i] = PhoneInit(new_phone).value]]

\* Record.edit_phone: Phone(new_phone) is built only once old_phone is found,
\* and before the assignment
RecordEditPhone(rec, old_phone, new_phone) ==
  LET i == FirstPhone(rec, old_phone)
  IN IF i = 0 THEN [exc |-> "none", ret |-> FALSE, rec |-> rec]
     ELSE IF PhoneInit(new_phone).exc # "none"
          THEN [exc |-> PhoneInit(new_phone).exc, ret |-> FALSE, rec |-> rec]
          ELSE [exc |-> "none", ret |-> TRUE,
                rec |-> [rec EXCEPT !.phones[i] = PhoneInit(new_phone).value]]

\* Record.add_birthday
RecordAddBirthday(rec, birthday) ==
  IF BirthdayInit(birthday).exc # "none"
  THEN [exc |-> BirthdayInit(birthday).exc, rec |-> rec]
  ELSE [exc |-> "none", rec |-> [rec EXCEPT !.birthday = BirthdayInit(birthday).value]]

----------------------------------------------------------------------------
(* AddressBook: the dict, as the sequence of its (key, record) items in    *)
(* insertion order                                                          *)

EmptyBook == <<>>

Keys(b) == {b[i].key : i \in 1..Len(b)}

\* position of key name, 0 when it is not a key
IndexOf(b, name) ==
  IF \E i \in 1..Len(b) : b[i].key = name
  THEN CHOOSE i \in 1..Len(b) : b[i].key = name
  ELSE 0

\* AddressBook.find: data.get(name); found = FALSE stands for None
Find(b, name) ==
  IF IndexOf(b, name) = 0
  THEN [found |-> FALSE, rec |-> [name |-> <<>>, phones |-> <<>>, birthday |-> NoBirthday]]
  ELSE [found |-> TRUE, rec |-> b[IndexOf(b, name)].rec]

\* data[key] = rec: an existing key keeps its position
SetItem(b, key, rec) ==
  IF IndexOf(b, key) = 0 THEN Append(b, [key |-> key, rec |-> rec])
  ELSE [b EXCEPT ![IndexOf(b, key)] = [key |-> key, rec |-> rec]]

\* AddressBook.add_record
AddRecord(b, rec) == SetItem(b, rec.name, rec)

\* AddressBook.delete
Delete(b, name) ==
  LET i == IndexOf(b, name)
  IN IF i = 0 THEN b ELSE SubSeq(b, 1, i - 1) \o SubSeq(b, i + 1, Len(b))

NoPhoneMarker == <<" ", "N", "o", " ", "p", "h", "o", "n", "e", " ">>

\* as the loop body below, but only a Saturday is shifted
UpcomingOfSaturdayOnly(rec, today, pad) ==
  LET bday == rec.birthday
      thisYear == DateReplaceYear(bday, today.year)
      nextYear == DateReplaceYear(bday, today.year + 1)
      wrap == thisYear.exc = "none" /\ DateLT(thisYear.value, today)
      upcoming_bday == IF wrap THEN nextYear.value ELSE thisYear.value
      diff == ToOrdinal(upcoming_bday) - ToOrdinal(today)
      shifted == IF Weekday(upcoming_bday) = 5 THEN DateAddDays(upcoming_bday, 2)
                 ELSE [exc |-> "none", value |-> upcoming_bday]
      phone == IF rec.phones # <<>> THEN rec.phones[1] ELSE NoPhoneMarker
      none == [name |-> <<>>, congratulation_date |-> <<>>, phone |-> <<>>]
  IN IF thisYear.exc # "none" THEN [exc |-> thisYear.exc, add |-> FALSE, entry |-> none]
     ELSE IF wrap /\ nextYear.exc # "none" THEN [exc |-> nextYear.exc, add |-> FALSE, entry |-> none]
     ELSE IF ~(0 <= diff /\ diff < 7) THEN [exc |-> "none", add |-> FALSE, entry |-> none]
     ELSE IF shifted.exc # "none" THEN [exc |-> shifted.exc, add |-> FALSE, entry |-> none]
     ELSE [exc |-> "none", add |-> TRUE,
           entry |-> [name |-> rec.name,
                      congratulation_date |-> Strftime(shifted.value, pad),
                      phone |-> phone]]

\* one iteration of the loop of get_upcoming_birthdays on a record that has a
\* birthday: the exception it raises, whether it appends, and the entry
UpcomingOf(rec, today, pad) ==
  LET bday == rec.birthday
      thisYear == DateReplaceYear(bday, today.year)
      nextYear == DateReplaceYear(bday, today.year + 1)
      wrap == thisYear.exc = "none" /\ DateLT(thisYear.value, today)
      upcoming_bday == IF wrap THEN nextYear.value ELSE thisYear.value
      diff == ToOrdinal(upcoming_bday) - ToOrdinal(today)
      shifted == IF Weekday(upcoming_bday) = 5 THEN DateAddDays(upcoming_bday, 2)
                 ELSE IF Weekday(upcoming_bday) = 6 THEN DateAddDays(upcoming_bday, 1)
                 ELSE [exc |-> "none", value |-> upcoming_bday]
      phone == IF rec.phones # <<>> THEN rec.phones[1] ELSE NoPhoneMarker
      none == [name |-> <<>>, congratulation_date |-> <<>>, phone |-> <<>>]
  IN IF thisYear.exc # "none" THEN [exc |-> thisYear.exc, add |-> FALSE, entry |-> none]
     ELSE IF wrap /\ nextYear.exc # "none" THEN [exc |-> nextYear.exc, add |-> FALSE, entry |-> none]
     ELSE IF ~(0 <= diff /\ diff < 7) THEN [exc |-> "none", add |-> FALSE, entry |-> none]
     ELSE IF shifted.exc # "none" THEN [exc |-> shifted.exc, add |-> FALSE, entry |-> none]
     ELSE [exc |-> "none", add |-> TRUE,
           entry |-> [name |-> rec.name,
                      congratulation_date |-> Strftime(shifted.value, pad),
                      phone |-> phone]]

RECURSIVE UpcomingFrom(_, _, _, _, _)
UpcomingFrom(b, today, pad, i, upcoming) ==
  IF i > Len(b) THEN [exc |-> "none", value |-> upcoming]
  ELSE IF b[i].rec.birthday = NoBirthday THEN UpcomingFrom(b, today, pad, i + 1, upcoming)
  ELSE LET u == UpcomingOf(b[i].rec, today, pad)
       IN IF u.exc # "none" THEN [exc |-> u.exc, value |-> <<>>]
          ELSE UpcomingFrom(b, today, pad, i + 1,
                            IF u.add THEN Append(upcoming, u.entry) ELSE upcoming)

\* AddressBook.get_upcoming_birthdays, today being dtdt.today().date()
GetUpcomingBirthdays(b, today, pad) == UpcomingFrom(b, today, pad, 1, <<>>)

----------------------------------------------------------------------------
(* Persistence: both pairs of functions default to the file PHONEBOOK_FILE *)

NoFile == [fmt |-> "absent", json |-> <<>>, pickle |-> EmptyBook]

JsonNull == [null |-> TRUE, text |-> <<>>]

\* save_address_book: one JSON object member per item of the book
SaveAddressBook(b, pad) ==
  [fmt |-> "json",
   json |-> [i \in 1..Len(b) |->
              [name |-> b[i].key,
               phones |-> b[i].rec.phones,
               birthday |-> IF b[i].rec.birthday = NoBirthday THEN JsonNull
                            ELSE [null |-> FALSE,
                                  text |-> Strftime(b[i].rec.birthday, pad)]]],
   pickle |-> EmptyBook]

RECURSIVE AddPhones(_, _, _)
AddPhones(rec, phones, i) ==
  IF i > Len(phones) THEN [exc |-> "none", rec |-> rec]
  ELSE IF RecordAddPhone(rec, phones[i]).exc # "none"
       THEN [exc |-> RecordAddPhone(rec, phones[i]).exc, rec |-> rec]
       ELSE AddPhones(RecordAddPhone(rec, phones[i]).rec, phones, i + 1)

\* the body of the loop of load_address_book for one member
LoadMember(info) ==
  LET r0 == RecordInit(info.name)
      r1 == AddPhones(r0.rec, info.phones, 1)
      r2 == IF ~info.birthday.null /\ info.birthday.text # <<>>
            THEN RecordAddBirthday(r1.rec, info.birthday.text)
            ELSE [exc |-> "none", rec |-> r1.rec]
  IN IF r0.exc # "none" THEN [exc |-> r0.exc, rec |-> r0.rec]
     ELSE IF r1.exc # "none" THEN [exc |-> r1.exc, rec |-> r0.rec]
     ELSE r2

RECURSIVE LoadMembers(_, _, _)
LoadMembers(data, i, b) ==
  IF i > Len(data) THEN [exc |-> "none", book |-> b]
  ELSE IF LoadMember(data[i]).exc # "none"
       THEN [exc |-> LoadMember(data[i]).exc, book |-> b]
       ELSE LoadMembers(data, i + 1, AddRecord(b, LoadMember(data[i]).rec))

\* load_address_book: an empty book when the file does not exist; json.load
\* raises a ValueError (JSONDecodeError or UnicodeDecodeError) on a pickle
LoadAddressBook(f) ==
  IF f.fmt = "absent" THEN [exc |-> "none", book |-> EmptyBook]
  ELSE IF f.fmt # "json" THEN [exc |-> "ValueError", book |-> EmptyBook]
  ELSE LoadMembers(f.json, 1, EmptyBook)

\* save_data: pickle.dump writes the object graph of the book
SaveData(b) == [fmt |-> "pickle", json |-> <<>>, pickle |-> b]

\* load_data: AddressBook() on FileNotFoundError; pickle.load raises
\* UnpicklingError on a file that is not a pickle
LoadData(f) ==
  IF f.fmt = "absent" THEN [exc |-> "none", book |-> EmptyBook]
  ELSE IF f.fmt # "pickle" THEN [exc |-> "UnpicklingError", book |-> EmptyBook]
  ELSE [exc |-> "none", book |-> f.pickle]

----------------------------------------------------------------------------
(* Command handlers.  A handler body returns the exception it raises (exc), *)
(* the level and text of the message it returns, the values shown in that   *)
(* message (data, list) and the book as the body left it: the book is       *)
(* mutated in place, so what was done before a raise stays done.            *)

Raw(exc, level, text, data, list, b) ==
  [exc |-> exc, level |-> level, text |-> text, data |-> data, list |-> list, book |-> b]

\* an exception of type exc with message msg
Raise(exc, msg, b) == Raw(exc, "", msg, <<>>, <<>>, b)

UnpackMsg == "not enough values to unpack"
NameMsg == "Name must contain only letters."
PhoneMsg == "Phone number must be exactly 10 digits."
DateMsg == "Invalid date format. Use DD.MM.YYYY"
NotFoundMsg == "Contact not found."

\* the record stored under key is the object the handler mutates
ReplaceRec(b, key, rec) == [b EXCEPT ![IndexOf(b, key)].rec = rec]

\* as input_error, without the except clause for ValueError
InputErrorNoValueError(r) ==
  IF r.exc = "none"
  THEN [escaped |-> FALSE, exc |-> "none", level |-> r.level, text |-> r.text, detail |-> ""]
  ELSE IF r.exc = "KeyError"
  THEN [escaped |-> FALSE, exc |-> r.exc, level |-> "WARN", text |-> "Key Error", detail |-> r.text]
  ELSE IF r.exc = "IndexError"
  THEN [escaped |-> FALSE, exc |-> r.exc, level |-> "WARN", text |-> "Index Error", detail |-> r.text]
  ELSE [escaped |-> TRUE, exc |-> r.exc, level |-> "", text |-> "", detail |-> r.text]

\* input_error: ValueError, KeyError and IndexError become a WARN message;
\* any other exception propagates to the caller
InputError(r) ==
  IF r.exc = "none"
  THEN [escaped |-> FALSE, exc |-> "none", level |-> r.level, text |-> r.text, detail |-> ""]
  ELSE IF r.exc = "ValueError"
  THEN [escaped |-> FALSE, exc |-> r.exc, level |-> "WARN", text |-> "Value Error", detail |-> r.text]
  ELSE IF r.exc = "KeyError"
  THEN [escaped |-> FALSE, exc |-> r.exc, level |-> "WARN", text |-> "Key Error", detail |-> r.text]
  ELSE IF r.exc = "IndexError"
  THEN [escaped |-> FALSE, exc |-> r.exc, level |-> "WARN", text |-> "Index Error", detail |-> r.text]
  ELSE [escaped |-> TRUE, exc |-> r.exc, level |-> "", text |-> "", detail |-> r.text]

\* the body of add_contact; name, phone, *_ = args raises ValueError on
\* fewer than two arguments
add_contact(args, b) ==
  IF Len(args) < 2 THEN Raise("ValueError", UnpackMsg, b)
  ELSE
    LET name == args[1]
        phone == args[2]
        found == Find(b, name).found
        created == RecordInit(name)
        b1 == IF found THEN b ELSE AddRecord(b, created.rec)
        record == IF found THEN Find(b, name).rec ELSE created.rec
        message == IF found THEN "Contact updated." ELSE "Contact added."
        added == RecordAddPhone(record, phone)
    IN IF ~found /\ created.exc # "none" THEN Raise(created.exc, NameMsg, b)
       ELSE IF phone = <<>> THEN Raw("none", "ADD", message, <<>>, <<>>, b1)
       ELSE IF added.exc # "none" THEN Raise(added.exc, PhoneMsg, b1)
       ELSE Raw("none", "ADD", message, <<>>, <<>>, ReplaceRec(b1, name, added.rec))

\* the body of change_contact
change_contact(args, b) ==
  IF Len(args) < 3 THEN Raise("ValueError", UnpackMsg, b)
  ELSE
    LET name == args[1]
        old_phone == args[2]
        new_phone == args[3]
        found == Find(b, name).found
        edited == RecordEditPhone(Find(b, name).rec, old_phone, new_phone)
    IN IF ~found THEN Raise("KeyError", NotFoundMsg, b)
       ELSE IF edited.exc # "none" THEN Raise(edited.exc, PhoneMsg, b)
       ELSE IF edited.ret
            THEN Raw("none", "CHANGE", "Contact updated.", <<>>, <<>>,
                     ReplaceRec(b, name, edited.rec))
            ELSE Raw("none", "WARN", "Old phone number not found.", <<>>, <<>>, b)

\* the body of show_contact
show_contact(args, b) ==
  IF Len(args) < 1 THEN Raise("ValueError", UnpackMsg, b)
  ELSE
    LET name == args[1]
        found == Find(b, name).found
        record == Find(b, name).rec
    IN IF ~found THEN Raise("KeyError", NotFoundMsg, b)
       ELSE Raw("none", "PLAIN", "phones", <<record.name>> \o record.phones, <<>>, b)

\* the body of add_birthday
add_birthday(args, b) ==
  IF Len(args) < 2 THEN Raise("ValueError", UnpackMsg, b)
  ELSE
    LET name == args[1]
        birthday == args[2]
        found == Find(b, name).found
        created == RecordInit(name)
        b1 == IF found THEN b ELSE AddRecord(b, created.rec)
        record == IF found THEN Find(b, name).rec ELSE created.rec
        set == RecordAddBirthday(record, birthday)
    IN IF ~found /\ created.exc # "none" THEN Raise(created.exc, NameMsg, b)
       ELSE IF set.exc # "none" THEN Raise(set.exc, DateMsg, b1)
       ELSE Raw("none", "ADD", "Birthday added/updated.", <<name>>, <<>>,
                ReplaceRec(b1, name, set.rec))

\* the body of show_birthday
show_birthday(args, b, pad) ==
  IF Len(args) < 1 THEN Raise("ValueError", UnpackMsg, b)
  ELSE
    LET name == args[1]
        found == Find(b, name).found
        record == Find(b, name).rec
    IN IF ~found THEN Raise("KeyError", NotFoundMsg, b)
       ELSE IF record.birthday = NoBirthday
            THEN Raw("none", "PLAIN", "Birthday is not set.", <<name>>, <<>>, b)
            ELSE Raw("none", "PLAIN", "birthday is on",
                     <<name, Strftime(record.birthday, pad)>>, <<>>, b)

\* the body of birthdays
birthdays(args, b, today, pad) ==
  LET upcoming == GetUpcomingBirthdays(b, today, pad)
  IN IF upcoming.exc # "none" THEN Raise(upcoming.exc, "date out of range", b)
     ELSE IF upcoming.value = <<>>
          THEN Raw("none", "PLAIN", "No upcoming birthdays in the next week.", <<>>, <<>>, b)
          ELSE Raw("none", "PLAIN", "To congrat", <<>>, upcoming.value, b)

\* as delete_contact, without the check that the name is a key
delete_contact_unchecked(args, b) ==
  IF Len(args) < 1 THEN Raise("ValueError", UnpackMsg, b)
  ELSE Raw("none", "DELETE", "Contact deleted.", <<args[1]>>, <<>>, Delete(b, args[1]))

\* the body of delete_contact
delete_contact(args, b) ==
  IF Len(args) < 1 THEN Raise("ValueError", UnpackMsg, b)
  ELSE
    LET name == args[1]
    IN IF ~Find(b, name).found THEN Raise("KeyError", NotFoundMsg, b)
       ELSE Raw("none", "DELETE", "Contact deleted.", <<name>>, <<>>, Delete(b, name))

----------------------------------------------------------------------------
(* Inputs *)

N_al == <<"a", "l">>
N_Al == <<"A", "l">>
N_bad == <<"a", "1">>

P1 == [i \in 1..10 |-> "1"]
P2 == [i \in 1..10 |-> "2"]
PShort == [i \in 1..9 |-> "1"]
PAlpha == [i \in 1..10 |-> IF i = 10 THEN "a" ELSE "1"]

B_1506 == <<"1", "5", ".", "0", "6", ".", "1", "9", "9", "0">>
B_2902 == <<"2", "9", ".", "0", "2", ".", "2", "0", "2", "4">>
B_0999 == <<"0", "1", ".", "0", "1", ".", "0", "9", "9", "9">>
B_3002 == <<"3", "0", ".", "0", "2", ".", "2", "0", "2", "4">>
B_3104 == <<"3", "1", ".", "0", "4", ".", "2", "0", "2", "1">>
B_dash == <<"1", "5", "-", "0", "6", "-", "1", "9", "9", "0">>
B_0000 == <<"0", "1", ".", "0", "1", ".", "0", "0", "0", "0">>

NameInputs == {N_al, N_Al, N_bad}
ValidPhones == {P1, P2}

\* the dates dtdt.today().date() takes
Todays ==
  {MkDate(2024, 6, 8), MkDate(2024, 6, 9), MkDate(2024, 6, 10), MkDate(2024, 6, 15),
   MkDate(2024, 6, 16), MkDate(2025, 6, 10), MkDate(2023, 12, 28), MkDate(2024, 12, 30),
   MkDate(2024, 2, 26), MkDate(2023, 2, 25), MkDate(2024, 3, 1)}

\* argument lists of the handlers: too few arguments, extra arguments,
\* names, phones and dates that pass and that fail validation
AddArgs ==
  {<<>>, <<N_al>>, <<N_al, P1, P2>>, <<N_Al, PShort>>, <<N_bad, P1>>, <<N_bad, PShort>>}
    \cup {<<N_al, p>> : p \in {P1, P2, PShort, PAlpha, <<>>}}

ChangeArgs ==
  {<<>>, <<N_al, P1>>, <<N_Al, P1, P2>>, <<N_bad, P1, P2>>}
    \cup {<<N_al, o, p>> : o \in ValidPhones, p \in ValidPhones \cup {PShort}}

NameArgs == {<<>>} \cup {<<n>> : n \in NameInputs}

BirthdayArgs ==
  {<<>>, <<N_al>>, <<N_al, B_1506>>, <<N_al, B_3002>>, <<N_Al, B_1506>>, <<N_Al, B_dash>>,
   <<N_bad, B_1506>>}

\* argument lists rich in dates
DateAddArgs == {<<>>, <<N_al, P1>>, <<N_al, PShort>>, <<N_bad, P1>>}

DateChangeArgs == {<<N_al>>, <<N_al, P1, P2>>, <<N_al, P1, PAlpha>>, <<N_Al, P1, P2>>}

DateNameArgs == {<<>>, <<N_al>>, <<N_Al>>}

ValidBirthdays == {B_1506, B_2902, B_0999}

DateBirthdayArgs ==
  {<<>>, <<N_al>>, <<N_bad, B_1506>>}
    \cup {<<N_al, d>> : d \in ValidBirthdays \cup {B_3002, B_3104, B_dash, B_0000}}
    \cup {<<N_Al, d>> : d \in ValidBirthdays}

----------------------------------------------------------------------------
(* State *)

NoDate == NoBirthday

\* the book stays within the bounds of the model
Bounded(b) ==
  \A i \in 1..Len(b) : Len(b[i].rec.phones) <= MaxPhones

Outcome(op, args, exc, escaped, level, text, detail, data, list, ret, today) ==
  [op |-> op, args |-> args, exc |-> exc, escaped |-> escaped, level |-> level,
   text |-> text, detail |-> detail, data |-> data, list |-> list, ret |-> ret,
   today |-> today]

NoCall == Outcome("none", <<>>, "none", FALSE, "", "", "", <<>>, <<>>, FALSE, NoDate)

\* what the caller of the decorated handler op gets when its body did r
HandlerOutcome(op, args, r, today) ==
  Outcome(op, args, InputError(r).exc, InputError(r).escaped, InputError(r).level,
          InputError(r).text, InputError(r).detail,
          IF r.exc = "none" THEN r.data ELSE <<>>,
          IF r.exc = "none" THEN r.list ELSE <<>>, FALSE, today)

\* what the caller of a method of Record or AddressBook gets
MethodOutcome(op, args, exc, list, ret, today) ==
  Outcome(op, args, exc, exc # "none", "", "", "", <<>>, list, ret, today)

Init ==
  /\ book = EmptyBook
  /\ prev = EmptyBook
  /\ last = NoCall
  /\ file = NoFile
  /\ saved = EmptyBook
  /\ pc = "lib"
  /\ padYear \in BOOLEAN

\* a call of a decorated handler on the book
Handle(op, args, r, today) ==
  /\ Bounded(r.book)
  /\ book' = r.book
  /\ prev' = book
  /\ last' = HandlerOutcome(op, args, r, today)
  /\ UNCHANGED <<file, pc, padYear, saved>>

AddContact(args) ==
  pc = "lib" /\ Handle("add_contact", args, add_contact(args, book), NoDate)

ChangeContact(args) ==
  pc = "lib" /\ Handle("change_contact", args, change_contact(args, book), NoDate)

ShowContact(args) ==
  pc = "lib" /\ Handle("show_contact", args, show_contact(args, book), NoDate)

AddBirthday(args) ==
  pc = "lib" /\ Handle("add_birthday", args, add_birthday(args, book), NoDate)

ShowBirthday(args) ==
  pc = "lib" /\ Handle("show_birthday", args, show_birthday(args, book, padYear), NoDate)

Birthdays(today) ==
  pc = "lib" /\ Handle("birthdays", <<>>, birthdays(<<>>, book, today, padYear), today)

DeleteContact(args) ==
  pc = "lib" /\ Handle("delete_contact", args, delete_contact(args, book), NoDate)

\* a call of a method on the book or on one of its records
Method(b, out) ==
  /\ Bounded(b)
  /\ book' = b
  /\ prev' = book
  /\ last' = out
  /\ UNCHANGED <<file, pc, padYear, saved>>

\* record = Record(name); book.add_record(record)
CreateRecord(name) ==
  /\ pc = "lib"
  /\ LET r == RecordInit(name)
     IN Method(IF r.exc = "none" THEN AddRecord(book, r.rec) ELSE book,
               MethodOutcome("add_record", <<name>>, r.exc, <<>>, FALSE, NoDate))

\* book.find(key).add_phone(phone)
AddPhone(key, phone) ==
  /\ pc = "lib"
  /\ key \in Keys(book)
  /\ LET r == RecordAddPhone(Find(book, key).rec, phone)
     IN Method(ReplaceRec(book, key, r.rec),
               MethodOutcome("add_phone", <<key, phone>>, r.exc, <<>>, FALSE, NoDate))

\* book.find(key).edit_phone(old_phone, new_phone)
EditPhone(key, old_phone, new_phone) ==
  /\ pc = "lib"
  /\ key \in Keys(book)
  /\ LET r == RecordEditPhone(Find(book, key).rec, old_phone, new_phone)
     IN Method(ReplaceRec(book, key, r.rec),
               MethodOutcome("edit_phone", <<key, old_phone, new_phone>>, r.exc, <<>>,
                             r.ret, NoDate))

\* book.find(key).delete_phone(phone)
DeletePhone(key, phone) ==
  /\ pc = "lib"
  /\ key \in Keys(book)
  /\ LET r == RecordDeletePhone(Find(book, key).rec, phone)
     IN Method(ReplaceRec(book, key, r.rec),
               MethodOutcome("delete_phone", <<key, phone>>, "none", <<>>, r.ret, NoDate))

\* book.delete(name)
BookDelete(name) ==
  /\ pc = "lib"
  /\ Method(Delete(book, name),
            MethodOutcome("delete", <<name>>, "none", <<>>, FALSE, NoDate))

\* book.get_upcoming_birthdays() on a day today
UpcomingBirthdays(today) ==
  /\ pc = "lib"
  /\ LET r == GetUpcomingBirthdays(book, today, padYear)
     IN Method(book,
               MethodOutcome("get_upcoming_birthdays", <<>>, r.exc, r.value, FALSE, today))

\* the handlers and the methods of Record and AddressBook, on inputs rich
\* in names and phones
Next ==
  \/ \E args \in AddArgs : AddContact(args)
  \/ \E args \in ChangeArgs : ChangeContact(args)
  \/ \E args \in NameArgs : ShowContact(args)
  \/ \E args \in BirthdayArgs : AddBirthday(args)
  \/ \E args \in NameArgs : ShowBirthday(args)
  \/ Birthdays(MkDate(2024, 6, 10))
  \/ \E args \in NameArgs : DeleteContact(args)
  \/ \E name \in NameInputs \cup {<<>>} : CreateRecord(name)
  \/ \E phone \in ValidPhones \cup {PShort} : AddPhone(N_al, phone)
  \/ \E old \in ValidPhones, new \in ValidPhones \cup {PShort} : EditPhone(N_al, old, new)
  \/ \E key \in {N_al, N_Al}, phone \in {P1, PShort} : DeletePhone(key, phone)
  \/ \E name \in NameInputs : BookDelete(name)

Spec == Init /\ [][Next]_vars

\* the handlers and get_upcoming_birthdays, on inputs rich in dates
NextBirthdays ==
  \/ \E args \in DateAddArgs : AddContact(args)
  \/ \E args \in DateChangeArgs : ChangeContact(args)
  \/ \E args \in DateNameArgs : ShowContact(args)
  \/ \E args \in DateBirthdayArgs : AddBirthday(args)
  \/ \E args \in DateNameArgs : ShowBirthday(args)
  \/ \E today \in Todays : Birthdays(today)
  \/ \E args \in DateNameArgs : DeleteContact(args)
  \/ \E today \in Todays : UpcomingBirthdays(today)

SpecBirthdays == Init /\ [][NextBirthdays]_vars

----------------------------------------------------------------------------
(* The persistence functions, called directly with the default file name *)

\* save_address_book(book)
SaveJson ==
  /\ pc = "lib"
  /\ file' = SaveAddressBook(book, padYear)
  /\ saved' = book
  /\ prev' = book
  /\ last' = MethodOutcome("save_address_book", <<>>, "none", <<>>, FALSE, NoDate)
  /\ UNCHANGED <<book, pc, padYear>>

\* book = load_address_book(): nothing is assigned when the call raises
LoadJson ==
  /\ pc = "lib"
  /\ book' = IF LoadAddressBook(file).exc = "none" THEN LoadAddressBook(file).book ELSE book
  /\ prev' = book
  /\ last' = MethodOutcome("load_address_book", <<>>, LoadAddressBook(file).exc, <<>>,
                           FALSE, NoDate)
  /\ UNCHANGED <<file, pc, padYear, saved>>

\* save_data(book)
SavePickle ==
  /\ pc = "lib"
  /\ file' = SaveData(book)
  /\ saved' = book
  /\ prev' = book
  /\ last' = MethodOutcome("save_data", <<>>, "none", <<>>, FALSE, NoDate)
  /\ UNCHANGED <<book, pc, padYear>>

\* book = load_data()
LoadPickle ==
  /\ pc = "lib"
  /\ book' = IF LoadData(file).exc = "none" THEN LoadData(file).book ELSE book
  /\ prev' = book
  /\ last' = MethodOutcome("load_data", <<>>, LoadData(file).exc, <<>>, FALSE, NoDate)
  /\ UNCHANGED <<file, pc, padYear, saved>>

PersistAddArgs == {<<N_al, P1>>, <<N_Al, PAlpha>>}

PersistBirthdayArgs == {<<N_al, B_1506>>, <<N_al, B_0999>>, <<N_Al, B_1506>>}

PersistNameArgs == {<<N_al>>, <<N_Al>>}

\* books built by the handlers, saved and loaded
NextPersist ==
  \/ \E args \in PersistAddArgs : AddContact(args)
  \/ \E args \in PersistBirthdayArgs : AddBirthday(args)
  \/ \E args \in PersistNameArgs : DeleteContact(args)
  \/ SaveJson
  \/ LoadJson
  \/ SavePickle
  \/ LoadPickle

SpecPersist == Init /\ [][NextPersist]_vars

----------------------------------------------------------------------------
(* main *)

W_close == <<"c", "l", "o", "s", "e">>
W_exit == <<"e", "x", "i", "t">>
W_quit == <<"q", "u", "i", "t">>
W_hello == <<"h", "e", "l", "l", "o">>
W_help == <<"h", "e", "l", "p">>
W_add == <<"a", "d", "d">>
W_change == <<"c", "h", "a", "n", "g", "e">>
W_phone == <<"p", "h", "o", "n", "e">>
W_all == <<"a", "l", "l">>
W_add_birthday == <<"a", "d", "d", "-", "b", "i", "r", "t", "h", "d", "a", "y">>
W_show_birthday == <<"s", "h", "o", "w", "-", "b", "i", "r", "t", "h", "d", "a", "y">>
W_birthdays == <<"b", "i", "r", "t", "h", "d", "a", "y", "s">>
W_delete == <<"d", "e", "l", "e", "t", "e">>

\* the words separated by one space
RECURSIVE Line(_)
Line(words) ==
  IF words = <<>> THEN <<>>
  ELSE IF Len(words) = 1 THEN words[1]
  ELSE words[1] \o <<" ">> \o Line(Tail(words))

\* the lines input() returns
Lines ==
  {<<>>, <<" ", " ">>, <<"f", "o", "o">>, <<"E", "X", "I", "T">>, W_close, W_quit,
   <<" ">> \o W_hello, W_help, W_all, W_add, W_birthdays,
   Line(<<W_add, N_al, P1>>), Line(<<W_add, N_al, PShort>>),
   Line(<<W_change, N_al, P1, P2>>), Line(<<W_phone, N_al>>),
   Line(<<W_add_birthday, N_al, B_1506>>), Line(<<W_show_birthday, N_al>>),
   Line(<<W_delete, N_al>>)}

MainTodays == {MkDate(2024, 6, 10), MkDate(2024, 6, 16)}

\* parse_input: parts[0] raises IndexError when the line has no word
parse_input(user_input) ==
  LET parts == Split(user_input)
  IN IF parts = <<>> THEN [exc |-> "IndexError", command |-> <<>>, args |-> <<>>]
     ELSE [exc |-> "none", command |-> Lower(parts[1]), args |-> Tail(parts)]

\* parse_input on each of the lines
Parsed == [line \in Lines |-> parse_input(line)]

InitMain ==
  /\ book = EmptyBook
  /\ prev = EmptyBook
  /\ last = NoCall
  /\ file = NoFile
  /\ saved = EmptyBook
  /\ pc = "start"
  /\ padYear \in BOOLEAN

\* book = load_data(), then the welcome lines and print_contacts(book)
MainLoad ==
  /\ pc = "start"
  /\ book' = IF LoadData(file).exc = "none" THEN LoadData(file).book ELSE book
  /\ pc' = IF LoadData(file).exc = "none" THEN "prompt" ELSE "crashed"
  /\ prev' = book
  /\ last' = MethodOutcome("load_data", <<>>, LoadData(file).exc, <<>>, FALSE, NoDate)
  /\ UNCHANGED <<file, padYear, saved>>

\* the exception parse_input raises is not caught in main: the process ends
MainParseError(line) ==
  /\ pc = "prompt"
  /\ Parsed[line].exc # "none"
  /\ pc' = "crashed"
  /\ prev' = book
  /\ last' = MethodOutcome("parse_input", <<line>>, Parsed[line].exc, <<>>, FALSE, NoDate)
  /\ UNCHANGED <<book, file, padYear, saved>>

\* close, exit, quit: save_data(book), the farewell, break
MainExit(line) ==
  /\ pc = "prompt"
  /\ Parsed[line].exc = "none"
  /\ Parsed[line].command \in {W_close, W_exit, W_quit}
  /\ file' = SaveData(book)
  /\ saved' = book
  /\ pc' = "done"
  /\ prev' = book
  /\ last' = MethodOutcome("save_data", <<line>>, "none", <<>>, FALSE, NoDate)
  /\ UNCHANGED <<book, padYear>>

\* hello, help, all and the final else: something is printed
MainPrint(line) ==
  /\ pc = "prompt"
  /\ Parsed[line].exc = "none"
  /\ Parsed[line].command \notin
       {W_close, W_exit, W_quit, W_add, W_change, W_phone, W_add_birthday,
        W_show_birthday, W_birthdays, W_delete}
  /\ prev' = book
  /\ last' = MethodOutcome(IF Parsed[line].command \in {W_hello, W_help, W_all}
                           THEN "print" ELSE "Invalid command.",
                           <<line>>, "none", <<>>, FALSE, NoDate)
  /\ UNCHANGED <<book, file, pc, padYear, saved>>

\* the handler main calls for command, applied to args
Dispatch(command, args, b, today, pad) ==
  IF command = W_add THEN [op |-> "add_contact", r |-> add_contact(args, b)]
  ELSE IF command = W_change THEN [op |-> "change_contact", r |-> change_contact(args, b)]
  ELSE IF command = W_phone THEN [op |-> "show_contact", r |-> show_contact(args, b)]
  ELSE IF command = W_add_birthday THEN [op |-> "add_birthday", r |-> add_birthday(args, b)]
  ELSE IF command = W_show_birthday
       THEN [op |-> "show_birthday", r |-> show_birthday(args, b, pad)]
  ELSE IF command = W_birthdays THEN [op |-> "birthdays", r |-> birthdays(args, b, today, pad)]
  ELSE [op |-> "delete_contact", r |-> delete_contact(args, b)]

\* print(handler(args, book)); an exception input_error lets through ends
\* the process
MainHandler(line, today) ==
  /\ pc = "prompt"
  /\ Parsed[line].exc = "none"
  /\ Parsed[line].command \in
       {W_add, W_change, W_phone, W_add_birthday, W_show_birthday, W_birthdays, W_delete}
  /\ LET d == Dispatch(Parsed[line].command, Parsed[line].args, book, today,
                       padYear)
     IN /\ Bounded(d.r.book)
        /\ book' = d.r.book
        /\ prev' = book
        /\ last' = HandlerOutcome(d.op, Parsed[line].args, d.r, today)
        /\ pc' = IF InputError(d.r).escaped THEN "crashed" ELSE "prompt"
  /\ UNCHANGED <<file, padYear, saved>>

\* the program is started again
MainRestart ==
  /\ pc \in {"done", "crashed"}
  /\ pc' = "start"
  /\ book' = EmptyBook
  /\ prev' = EmptyBook
  /\ last' = NoCall
  /\ UNCHANGED <<file, padYear, saved>>

NextMain ==
  \/ MainLoad
  \/ \E line \in Lines : MainParseError(line)
  \/ \E line \in Lines : MainExit(line)
  \/ \E line \in Lines : MainPrint(line)
  \/ \E line \in Lines, today \in MainTodays : MainHandler(line, today)
  \/ MainRestart

SpecMain == InitMain /\ [][NextMain]_vars

----------------------------------------------------------------------------
(* Properties of the handlers and methods *)

Handlers ==
  {"add_contact", "change_contact", "show_contact", "add_birthday", "show_birthday",
   "birthdays", "delete_contact"}

TenDigits(p) ==
  Len(p) = 10 /\ \A k \in 1..Len(p) : p[k] \in {"0", "1", "2", "3", "4", "5", "6", "7", "8", "9"}

PhonesOf(b, key) == Find(b, key).rec.phones

\* b without the entry whose key is name, the others as they were
Without(b, name) == SelectSeq(b, LAMBDA e : e.key # name)

\* C3: every key of the book equals the capitalized form of its record's
\* name, and the name stored in the record is that capitalized form.
CE_C3_KeysCanonical ==
  \A i \in 1..Len(book) :
    /\ book[i].key = Capitalize(book[i].rec.name)
    /\ book[i].rec.name = Capitalize(book[i].rec.name)

\* C4: edit_phone with a valid new phone returns true and replaces only the
\* first occurrence of old, in place, when old occurs; otherwise it returns
\* false and leaves the phones unchanged.
C4_EditPhoneFirstOccurrence ==
  (last.op = "edit_phone" /\ TenDigits(last.args[3])) =>
    LET key == last.args[1]
        old == last.args[2]
        new == last.args[3]
        before == PhonesOf(prev, key)
        after == PhonesOf(book, key)
    IN /\ last.exc = "none"
       /\ IF \E i \in 1..Len(before) : before[i] = old
          THEN /\ last.ret
               /\ Len(after) = Len(before)
               /\ \E i \in 1..Len(before) :
                    /\ before[i] = old
                    /\ \A j \in 1..(i - 1) : before[j] # old
                    /\ after[i] = new
                    /\ \A j \in 1..Len(before) : j # i => after[j] = before[j]
          ELSE ~last.ret /\ after = before

W_C4_EditPhoneFirstOccurrence ==
  /\ last.op = "edit_phone"
  /\ last.ret
  /\ PhonesOf(prev, last.args[1]) = <<P1, P1>>
  /\ PhonesOf(book, last.args[1]) = <<P2, P1>>

\* C5: AddressBook.delete of a name that is not a key changes nothing and
\* raises nothing; delete_contact of such a name returns the 'Contact not
\* found' warning and changes nothing; on a key, both remove exactly that
\* entry.
C5_DeleteAbsentAndPresent ==
  /\ last.op = "delete" =>
       /\ last.exc = "none"
       /\ IF last.args[1] \in Keys(prev)
          THEN book = Without(prev, last.args[1]) /\ Len(book) = Len(prev) - 1
          ELSE book = prev
  /\ (last.op = "delete_contact" /\ Len(last.args) >= 1) =>
       IF last.args[1] \in Keys(prev)
       THEN /\ last.exc = "none"
            /\ book = Without(prev, last.args[1]) /\ Len(book) = Len(prev) - 1
       ELSE /\ ~last.escaped
            /\ last.level = "WARN"
            /\ last.exc = "KeyError"
            /\ last.detail = "Contact not found."
            /\ book = prev

W_C5_DeleteAbsentAndPresent ==
  /\ last.op = "delete_contact"
  /\ last.exc = "none"
  /\ Len(prev) = 2
  /\ Len(book) = 1
  /\ book[1].rec.phones # <<>>

\* C9: a handler that returns a warning for a validation, lookup or
\* missing-argument error leaves the book as it was before the call.
CE_C9_WarningLeavesBookUnchanged ==
  (/\ last.op \in Handlers \ {"birthdays"}
   /\ last.exc \in {"ValueError", "KeyError", "IndexError"}) => book = prev

\* C10: every stored phone is a string of exactly ten digits and every
\* stored name is a non-empty string of letters.
C10_StoredFieldsValid ==
  \A i \in 1..Len(book) :
    /\ book[i].rec.name # <<>>
    /\ \A k \in 1..Len(book[i].rec.name) :
         IsLower(book[i].rec.name[k]) \/ IsUpper(book[i].rec.name[k])
    /\ \A j \in 1..Len(book[i].rec.phones) : TenDigits(book[i].rec.phones[j])

W_C10_StoredFieldsValid ==
  /\ last.op \in {"add_phone", "edit_phone"}
  /\ last.exc = "ValueError"
  /\ Len(book) = 2
  /\ Len(PhonesOf(book, last.args[1])) = MaxPhones

----------------------------------------------------------------------------
(* Properties of the birthday computation *)

\* the occurrence of birthday b for the reference date t: its day and month
\* in the year of t, or in the following year when that is before t
Occurrence(b, t) ==
  IF ToOrdinal(MkDate(t.year, b.month, b.day)) < ToOrdinal(t)
  THEN MkDate(t.year + 1, b.month, b.day)
  ELSE MkDate(t.year, b.month, b.day)

DiffDays(b, t) == ToOrdinal(Occurrence(b, t)) - ToOrdinal(t)

IsFeb29(b) == b.month = 2 /\ b.day = 29

Listed(name) == \E k \in 1..Len(last.list) : last.list[k].name = name

\* C1: get_upcoming_birthdays includes a record whose birthday is not 29
\* February exactly when it has a birthday and diff is in 0..6; a record
\* with no birthday is never included.
CE_C1_IncludedIffInWindow ==
  last.op = "get_upcoming_birthdays" =>
    \A i \in 1..Len(book) :
      LET rec == book[i].rec
      IN ~IsFeb29(rec.birthday) =>
           (Listed(rec.name) <=>
              (rec.birthday # NoBirthday /\ DiffDays(rec.birthday, last.today) \in 0..6))

\* C2: the congratulation date of every returned entry is the occurrence
\* plus 2 days on a Saturday, plus 1 day on a Sunday, and the occurrence
\* otherwise; it is never a Saturday or Sunday; the entry is included on the
\* diff of the unshifted occurrence.
C2_WeekendShift ==
  last.op = "get_upcoming_birthdays" =>
    \A k \in 1..Len(last.list) :
      LET rec == Find(book, last.list[k].name).rec
          occ == Occurrence(rec.birthday, last.today)
          shift == IF Weekday(occ) = 5 THEN 2 ELSE IF Weekday(occ) = 6 THEN 1 ELSE 0
          text == last.list[k].congratulation_date
      IN /\ Find(book, last.list[k].name).found
         /\ BirthdayMatch(text)
         /\ Strptime(text).exc = "none"
         /\ ToOrdinal(Strptime(text).value) = ToOrdinal(occ) + shift
         /\ Weekday(Strptime(text).value) \notin {5, 6}
         /\ DiffDays(rec.birthday, last.today) \in 0..6

W_C2_WeekendShift ==
  /\ last.op = "get_upcoming_birthdays"
  /\ last.today = MkDate(2024, 6, 9)
  /\ \E k \in 1..Len(last.list) :
       last.list[k].congratulation_date = <<"1", "7", ".", "0", "6", ".", "2", "0", "2", "4">>

\* C7: every handler returns a result or warning string; no exception
\* escapes to the caller.
C7_NoExceptionEscapes ==
  last.op \in Handlers => (~last.escaped /\ last.level # "" /\ last.text # "")

W_C7_NoExceptionEscapes ==
  /\ last.op = "birthdays"
  /\ last.exc = "ValueError"
  /\ last.level = "WARN"
  /\ ~IsLeap(last.today.year)
  /\ \E i \in 1..Len(book) : IsFeb29(book[i].rec.birthday)

----------------------------------------------------------------------------
(* Properties of persistence and of main *)

\* the same keys and, under each key, the same name, phones and birthday
SameContacts(a, b) ==
  /\ Keys(a) = Keys(b)
  /\ \A k \in Keys(a) :
       /\ Find(a, k).rec.name = Find(b, k).rec.name
       /\ Find(a, k).rec.phones = Find(b, k).rec.phones
       /\ Find(a, k).rec.birthday = Find(b, k).rec.birthday

\* C6: loading what a save wrote yields the saved book's keys, names, phones
\* and birthdays; loading when there is no file yields an empty book and no
\* error.
CE_C6_SaveLoadRoundTrip ==
  /\ (last.op \in {"load_address_book", "load_data"} /\ file.fmt = "absent") =>
       (last.exc = "none" /\ book = EmptyBook)
  /\ (last.op = "load_address_book" /\ file.fmt = "json") =>
       (last.exc = "none" /\ SameContacts(book, saved))
  /\ (last.op = "load_data" /\ file.fmt = "pickle") =>
       (last.exc = "none" /\ SameContacts(book, saved))

\* C8: a session ends only on close, exit or quit, with the book saved.
CE_C8_SessionEndsSaved ==
  pc \in {"done", "crashed"} =>
    (pc = "done" /\ last.op = "save_data" /\ file = SaveData(book))

====
